---- MODULE Spec2Model ----
(***************************************************************************)
(* Model of packages/core/src/common/rpc/rpc-server.ts (Theia RPC server   *)
(* contract) and of the ElectronShellServer that implements it.            *)
(*                                                                         *)
(* Four specifications share the module:                                   *)
(*   SpecServer   the type-level transformation RpcServer<T>               *)
(*   SpecIs       the runtime capability test RpcEvent.is                  *)
(*   SpecContext  RpcContextKey and the lookups of an RpcContext           *)
(*   Spec         publishing through an RpcEvent and its delivery          *)
(***************************************************************************)
EXTENDS Integers, Sequences, FiniteSets, TLC

VARIABLES
    T,          \* the service interface handed to RpcServer<T>
    shape,      \* RpcServer<T> once the type has been instantiated
    shape2,     \* RpcServer<T> instantiated a second time
    impl,       \* a class declared `implements RpcServer<T>`
    value,      \* the value handed to RpcEvent.is
    isResult,   \* what RpcEvent.is returned for it
    ctx,        \* the RpcContext of the call being served
    populated,  \* identifier -> value, as the transport populated the context
    lastResult, \* the outcome of the last get/require on the context
    calls,      \* the sendAll/sendTo invocations made so far, in order
    notified,   \* the notifications raised on kOnSendAll/kOnSendTo, in order
    status      \* <<publish, peer>> -> state of that delivery

serverVars == <<T, shape, shape2, impl>>

isVars == <<value, isResult>>

ctxVars == <<ctx, populated, lastResult>>

eventVars == <<calls, notified, status>>

(***************************************************************************)
(* Bounds                                                                  *)
(***************************************************************************)
MaxNameLen == 2
MaxMembers == 2
MaxPublishes == 2

(***************************************************************************)
(* Property names.  A name is a sequence of fragments: the character `$`   *)
(* or a `$`-free run of identifier characters.                             *)
(***************************************************************************)
Fragments == {"$", "showItemInFolder"}

Names == UNION {[1..n -> Fragments] : n \in 0..MaxNameLen}

StringKey(n) == [kind |-> "string", name |-> n]

SymbolKey(n) == [kind |-> "symbol", name |-> n]

Never == [kind |-> "never", name |-> <<>>]

Keys == {StringKey(n) : n \in Names} \cup {SymbolKey(<<"showItemInFolder">>)}

\* T extends `${P}${string}`
StartsWith(P, K) == K.kind = "string" /\ Len(K.name) > 0 /\ Head(K.name) = P

\* Variant: the prefix is added whether or not it is there already.
AlwaysPrefix(P, K) ==
    IF K.kind = "string" THEN StringKey(<<P>> \o K.name) ELSE Never

\* Variant: string keys are kept as they are.
NeverPrefix(P, K) ==
    IF K.kind = "string" THEN K ELSE Never

EnsurePrefix(P, K) ==
    IF StartsWith(P, K) THEN K
    ELSE IF K.kind = "string" THEN StringKey(<<P>> \o K.name)
    ELSE Never

(***************************************************************************)
(* Member types of a service interface.                                    *)
(***************************************************************************)
Plain(b) == [awaitable |-> FALSE, of |-> b]

PromiseOf(b) == [awaitable |-> TRUE, of |-> b]

ReturnTypes == {Plain("void"), Plain("number"), PromiseOf("number")}

EventType(u) == [kind |-> "event", payload |-> u, params |-> <<>>, ret |-> Plain("void")]

FunctionType(ps, r) == [kind |-> "function", payload |-> "none", params |-> ps, ret |-> r]

ValueType == [kind |-> "value", payload |-> "none", params |-> <<>>, ret |-> Plain("void")]

\* The function types drawn for the members of T: a synchronous procedure, a
\* synchronous function and a cancellable asynchronous one.
FunctionTypes ==
    {FunctionType(<<"string">>, Plain("void")),
     FunctionType(<<"string">>, Plain("number")),
     FunctionType(<<"string", "CancellationToken">>, PromiseOf("number"))}

MemberTypes == {EventType("number")} \cup FunctionTypes \cup {ValueType}

Interfaces ==
    UNION {[D -> MemberTypes] : D \in {S \in SUBSET Keys : Cardinality(S) <= MaxMembers}}

\* T extends [...infer U, CancellationToken?] ? U : T
WithoutCancellationToken(ps) ==
    IF Len(ps) > 0 /\ ps[Len(ps)] = "CancellationToken"
    THEN SubSeq(ps, 1, Len(ps) - 1)
    ELSE ps

\* MaybePromise<W> = W | PromiseLike<W>
MaybePromise(w) == {Plain(w), PromiseOf(w)}

\* Variant: every return type is wrapped in an awaitable.
AlwaysAwaitable(V) == {PromiseOf(V.of)}

\* V extends PromiseLike<infer W> ? MaybePromise<W> : V
ServerReturn(V) == IF V.awaitable THEN MaybePromise(V.of) ELSE {V}

RpcEventMember(us) == [kind |-> "RpcEvent", payload |-> us, params |-> {}, rets |-> {}]

MethodMember(pss, rs) == [kind |-> "method", payload |-> {}, params |-> pss, rets |-> rs]

UndefinedMember == [kind |-> "undefined", payload |-> {}, params |-> {}, rets |-> {}]

\* The template of the mapped type, applied to the member types T[K] of the
\* keys K that are mapped to one name (one key unless names collide).
ServerMember(ts) ==
    IF \A t \in ts : t.kind = "event"
    THEN RpcEventMember({t.payload : t \in ts})
    ELSE IF \A t \in ts : t.kind = "function"
    THEN MethodMember({<<"RpcContext">> \o WithoutCancellationToken(t.params) : t \in ts},
                      UNION {ServerReturn(t.ret) : t \in ts})
    ELSE UndefinedMember

\* The keys of the mapped type: [K in keyof T as EnsurePrefix<'$', K>]
ServerNames(t) == {EnsurePrefix("$", K) : K \in DOMAIN t} \ {Never}

SourceKeys(t, n) == {K \in DOMAIN t : EnsurePrefix("$", K) = n}

\* Variant: no shape when two keys are mapped to one name.
RejectCollisions(t) ==
    LET ok == {n \in ServerNames(t) : Cardinality(SourceKeys(t, n)) = 1}
    IN  IF ok = ServerNames(t)
        THEN [n \in ok |-> [keys |-> SourceKeys(t, n),
                            type |-> ServerMember({t[K] : K \in SourceKeys(t, n)})]]
        ELSE << >>

\* Variant: members of type undefined are left out of the shape.
DropUndefined(t) ==
    LET ns == {n \in ServerNames(t) :
                 ServerMember({t[K] : K \in SourceKeys(t, n)}).kind # "undefined"}
    IN  [n \in ns |-> [keys |-> SourceKeys(t, n),
                       type |-> ServerMember({t[K] : K \in SourceKeys(t, n)})]]

RpcServer(t) ==
    [n \in ServerNames(t) |->
        [keys |-> SourceKeys(t, n),
         type |-> ServerMember({t[K] : K \in SourceKeys(t, n)})]]

(***************************************************************************)
(* Classes implementing a server shape.                                    *)
(***************************************************************************)
NotBuilt == [built |-> FALSE, members |-> << >>]

Built(s) == [built |-> TRUE, members |-> s]

NoClass == [declared |-> FALSE, members |-> << >>]

\* A declared class member: its kind and, for a method, its declared return type.
ClassMember(k, r) == [kind |-> k, ret |-> r]

\* class C implements RpcServer<T>: every member of the shape is declared
\* with a type the shape's member type accepts.
Implements(c, s) ==
    /\ DOMAIN c = DOMAIN s
    /\ \A n \in DOMAIN s :
        /\ c[n].kind = s[n].type.kind
        /\ s[n].type.kind = "method" => c[n].ret \in s[n].type.rets
        /\ s[n].type.kind # "method" => c[n].ret = Plain("void")

Classes(s) ==
    {c \in [DOMAIN s -> {ClassMember(k, r) :
                            k \in {"RpcEvent", "method", "undefined"},
                            r \in ReturnTypes \cup {Plain("void")}}] :
        Implements(c, s)}

showItemInFolder == StringKey(<<"$", "showItemInFolder">>)

\* $showItemInFolder(ctx: RpcContext, fsPath: string): void
ElectronShellServer ==
    (showItemInFolder :> ClassMember("method", Plain("void")))

(***************************************************************************)
(* RpcEvent.is                                                             *)
(***************************************************************************)
kOnSendAll == "Symbol.for(onSendAll)"

kOnSendTo == "Symbol.for(onSendTo)"

EventMembers == {kOnSendAll, kOnSendTo, "sendAll", "sendTo"}

\* What a property read yields: nothing, a function, or some other value.
PropertyKinds == {"absent", "function", "object"}

NoProperties == [m \in EventMembers |-> "absent"]

JsValue(t, ps) == [typeof |-> t, null |-> FALSE, props |-> ps]

Null == [typeof |-> "object", null |-> TRUE, props |-> NoProperties]

JsValues ==
    {Null, JsValue("undefined", NoProperties), JsValue("string", NoProperties)}
        \cup {JsValue(t, ps) : t \in {"object", "function"},
                               ps \in [EventMembers -> PropertyKinds]}

\* typeof value === 'object' && value !== null
isObject(v) == v.typeof = "object" /\ ~v.null

\* typeof value === 'function'
isFunction(p) == p = "function"

\* Variant: sendTo is not tested.
IsWithoutSendTo(v) ==
    /\ isObject(v)
    /\ isFunction(v.props[kOnSendAll])
    /\ isFunction(v.props[kOnSendTo])
    /\ isFunction(v.props["sendAll"])

RpcEvent_is(v) ==
    /\ isObject(v)
    /\ isFunction(v.props[kOnSendAll])
    /\ isFunction(v.props[kOnSendTo])
    /\ isFunction(v.props["sendAll"])
    /\ isFunction(v.props["sendTo"])

NotCalled == [called |-> FALSE, result |-> FALSE]

(***************************************************************************)
(* RpcContextKey and RpcContext                                            *)
(***************************************************************************)
Peers == {"p1", "p2"}

\* Raw identifiers: strings, and symbols (two of them with one description).
StringId(t) == [kind |-> "string", id |-> 0, label |-> t]

SymbolId(n, t) == [kind |-> "symbol", id |-> n, label |-> t]

Identifiers ==
    {StringId("connection"), SymbolId(1, "connection"), SymbolId(2, "connection")}

NoKey == [kind |-> "none", id |-> 0, label |-> ""]

ContextValues == {"v1", "v2"}

\* Variant: a key is the description of its identifier.
KeyByLabel(key) == StringId(key.label)

\* return key as RpcContextKey<T>
RpcContextKey(key) == key

\* The keyed metadata the transport builds from the pairs it populates.
Metadata(p) ==
    LET ks == {RpcContextKey(i) : i \in DOMAIN p}
    IN  [k \in ks |-> p[CHOOSE i \in DOMAIN p : RpcContextKey(i) = k]]

NoContext == [live |-> FALSE, sender |-> "none", request |-> FALSE, values |-> << >>]

Outcome(o, v, k) == [outcome |-> o, value |-> v, named |-> k]

\* Variant: a lookup that fails on an absent key.
GetThrows(c, k) ==
    IF k \in DOMAIN c.values
    THEN Outcome("value", c.values[k], NoKey)
    ELSE Outcome("MissingContextValue", "none", k)

\* get<T>(key): T | undefined
ContextGet(c, k) ==
    IF k \in DOMAIN c.values
    THEN Outcome("value", c.values[k], NoKey)
    ELSE Outcome("undefined", "undefined", NoKey)

\* require<T>(key): T
ContextRequire(c, k) ==
    IF k \in DOMAIN c.values
    THEN Outcome("value", c.values[k], NoKey)
    ELSE Outcome("MissingContextValue", "none", k)

NoResult == [op |-> "none", id |-> NoKey, result |-> Outcome("none", "none", NoKey),
             before |-> NoContext]

(***************************************************************************)
(* RpcEvent: sendAll, sendTo and the transport listening on both channels  *)
(***************************************************************************)
Payloads == {"e1", "e2"}

\* Arrays of peers without repetition.
PeerLists == {l \in UNION {[1..n -> Peers] : n \in 0..Cardinality(Peers)} :
                \A i, j \in 1..Len(l) : i # j => l[i] # l[j]}

Range(l) == {l[i] : i \in 1..Len(l)}

\* exceptions?: unknown[]
Absent == [present |-> FALSE, list |-> <<>>]

Present(l) == [present |-> TRUE, list |-> l]

\* interface SendAllEvent<T> { value: T; exceptions?: unknown[] }
SendAllEvent(e, exceptions) == [value |-> e, peers |-> exceptions]

\* interface SendToEvent<T> { value: T; targets: unknown[] }
SendToEvent(e, targets) == [value |-> e, peers |-> Present(targets)]

Notification(ch, ev) == [channel |-> ch, event |-> ev]

Call(op, e, arg) == [op |-> op, value |-> e, arg |-> arg, outcome |-> "returned"]

Deliveries == (1..MaxPublishes) \X Peers

\* The transport's listeners: the peers a notification is to be delivered to.
Recipients(n) ==
    IF n.channel = kOnSendAll
    THEN Peers \ Range(n.event.peers.list)
    ELSE Range(n.event.peers.list)

Enqueue(st, pub, n) ==
    [d \in Deliveries |->
        IF d[1] = pub /\ d[2] \in Recipients(n) THEN "pending" ELSE st[d]]

(***************************************************************************)
(* Each specification leaves the other parts of the module at rest.        *)
(***************************************************************************)
ServerIdle ==
    /\ T = << >>
    /\ shape = NotBuilt
    /\ shape2 = NotBuilt
    /\ impl = NoClass

IsIdle ==
    /\ value = Null
    /\ isResult = NotCalled

ContextIdle ==
    /\ ctx = NoContext
    /\ populated = << >>
    /\ lastResult = NoResult

EventIdle ==
    /\ calls = <<>>
    /\ notified = <<>>
    /\ status = [d \in Deliveries |-> "none"]

(***************************************************************************)
(* SpecIs                                                                  *)
(***************************************************************************)
InitIs ==
    /\ value \in JsValues
    /\ isResult = NotCalled
    /\ ServerIdle /\ ContextIdle /\ EventIdle

\* RpcEvent.is(value)
Is ==
    /\ ~isResult.called
    /\ isResult' = [called |-> TRUE, result |-> RpcEvent_is(value)]
    /\ UNCHANGED <<value, serverVars, ctxVars, eventVars>>

NextIs == Is

(***************************************************************************)
(* SpecContext                                                             *)
(***************************************************************************)
InitContext ==
    /\ ContextIdle
    /\ ServerIdle /\ IsIdle /\ EventIdle

\* The transport builds the context of an inbound call before dispatching it.
CreateContext ==
    /\ ~ctx.live
    /\ \E sender \in Peers, request \in BOOLEAN, S \in SUBSET Identifiers :
        \E p \in [S -> ContextValues] :
            /\ populated' = p
            /\ ctx' = [live |-> TRUE, sender |-> sender, request |-> request,
                       values |-> Metadata(p)]
    /\ lastResult' = NoResult
    /\ UNCHANGED <<serverVars, isVars, eventVars>>

\* Variant: get behaving as require.
ThrowingGet(id) ==
    /\ ctx.live
    /\ lastResult' = [op |-> "get", id |-> id,
                      result |-> GetThrows(ctx, RpcContextKey(id)), before |-> ctx]
    /\ UNCHANGED <<ctx, populated, serverVars, isVars, eventVars>>

\* context.get(RpcContextKey(id))
Get(id) ==
    /\ ctx.live
    /\ lastResult' = [op |-> "get", id |-> id,
                      result |-> ContextGet(ctx, RpcContextKey(id)), before |-> ctx]
    /\ UNCHANGED <<ctx, populated, serverVars, isVars, eventVars>>

\* context.require(RpcContextKey(id))
Require(id) ==
    /\ ctx.live
    /\ lastResult' = [op |-> "require", id |-> id,
                      result |-> ContextRequire(ctx, RpcContextKey(id)), before |-> ctx]
    /\ UNCHANGED <<ctx, populated, serverVars, isVars, eventVars>>

\* The call completes and its context is discarded.
CompleteCall ==
    /\ ctx.live
    /\ ctx' = NoContext
    /\ populated' = << >>
    /\ lastResult' = NoResult
    /\ UNCHANGED <<serverVars, isVars, eventVars>>

NextContext ==
    \/ CreateContext
    \/ \E id \in Identifiers : Get(id)
    \/ \E id \in Identifiers : Require(id)
    \/ CompleteCall

(***************************************************************************)
(* Spec: publishing through an RpcEvent                                    *)
(***************************************************************************)
Init ==
    /\ EventIdle
    /\ ServerIdle /\ IsIdle /\ ContextIdle

\* Variant: sendTo also raising a notification on kOnSendAll.
SendToBothChannels(e, targets) ==
    /\ Len(calls) < MaxPublishes
    /\ calls' = Append(calls, Call("sendTo", e, Present(targets)))
    /\ notified' = notified
            \o <<Notification(kOnSendTo, SendToEvent(e, targets)),
                 Notification(kOnSendAll, SendAllEvent(e, Absent))>>
    /\ status' = Enqueue(status, Len(calls) + 1,
                         Notification(kOnSendTo, SendToEvent(e, targets)))
    /\ UNCHANGED <<serverVars, isVars, ctxVars>>

\* sendAll(event, exceptions?)
SendAll(e, exceptions) ==
    /\ Len(calls) < MaxPublishes
    /\ calls' = Append(calls, Call("sendAll", e, exceptions))
    /\ notified' = Append(notified, Notification(kOnSendAll, SendAllEvent(e, exceptions)))
    /\ status' = Enqueue(status, Len(calls) + 1,
                         Notification(kOnSendAll, SendAllEvent(e, exceptions)))
    /\ UNCHANGED <<serverVars, isVars, ctxVars>>

\* sendTo(event, targets)
SendTo(e, targets) ==
    /\ Len(calls) < MaxPublishes
    /\ calls' = Append(calls, Call("sendTo", e, Present(targets)))
    /\ notified' = Append(notified, Notification(kOnSendTo, SendToEvent(e, targets)))
    /\ status' = Enqueue(status, Len(calls) + 1,
                         Notification(kOnSendTo, SendToEvent(e, targets)))
    /\ UNCHANGED <<serverVars, isVars, ctxVars>>

\* A peer's deliveries go out in the order of the publishes.
NextFor(pub, peer) ==
    /\ status[<<pub, peer>>] = "pending"
    /\ \A q \in 1..(pub - 1) : status[<<q, peer>>] # "pending"

\* Variant: a failed delivery abandons the rest of its publish.
DeliverOrAbort(pub, peer, ok) ==
    /\ NextFor(pub, peer)
    /\ status' = [d \in Deliveries |->
                    IF d = <<pub, peer>> THEN (IF ok THEN "delivered" ELSE "failed")
                    ELSE IF ~ok /\ d[1] = pub /\ status[d] = "pending" THEN "skipped"
                    ELSE status[d]]
    /\ UNCHANGED <<calls, notified, serverVars, isVars, ctxVars>>

\* The transport attempts one delivery; a failure is collected, nothing more.
Deliver(pub, peer, ok) ==
    /\ NextFor(pub, peer)
    /\ status' = [status EXCEPT ![<<pub, peer>>] = IF ok THEN "delivered" ELSE "failed"]
    /\ UNCHANGED <<calls, notified, serverVars, isVars, ctxVars>>

Next ==
    \/ \E e \in Payloads, l \in PeerLists : SendAll(e, Present(l))
    \/ \E e \in Payloads : SendAll(e, Absent)
    \/ \E e \in Payloads, l \in PeerLists : SendTo(e, l)
    \/ \E d \in Deliveries, ok \in BOOLEAN : Deliver(d[1], d[2], ok)

(***************************************************************************)
(* SpecServer                                                              *)
(***************************************************************************)
InitServer ==
    /\ T \in Interfaces
    /\ shape = NotBuilt
    /\ shape2 = NotBuilt
    /\ impl = NoClass
    /\ IsIdle /\ ContextIdle /\ EventIdle

\* First instantiation of RpcServer<T>.
BuildServer ==
    /\ ~shape.built
    /\ shape' = Built(RpcServer(T))
    /\ UNCHANGED <<T, shape2, impl, isVars, ctxVars, eventVars>>

\* A later instantiation of RpcServer<T> for the same T.
BuildServerAgain ==
    /\ shape.built
    /\ ~shape2.built
    /\ shape2' = Built(RpcServer(T))
    /\ UNCHANGED <<T, shape, impl, isVars, ctxVars, eventVars>>

\* A class is declared `implements RpcServer<T>` and type-checks.
ImplementServer ==
    /\ shape.built
    /\ ~impl.declared
    /\ \E c \in Classes(shape.members) :
        impl' = [declared |-> TRUE, members |-> c]
    /\ UNCHANGED <<T, shape, shape2, isVars, ctxVars, eventVars>>

NextServer == BuildServer \/ BuildServerAgain \/ ImplementServer

vars == <<serverVars, isVars, ctxVars, eventVars>>

SpecServer == InitServer /\ [][NextServer]_vars

SpecIs == InitIs /\ [][NextIs]_vars

SpecContext == InitContext /\ [][NextContext]_vars

Spec == Init /\ [][Next]_vars

(***************************************************************************)
(* Properties of the server shape (checked under SpecServer).              *)
(***************************************************************************)
\* The name the documented rule gives a string key: unchanged when it
\* already starts with `$`, else `$` followed by the name.
Dollar(K) ==
    IF K.name # <<>> /\ K.name[1] = "$" THEN K ELSE StringKey(<<"$">> \o K.name)

StringKeysOf(t) == {K \in DOMAIN t : K.kind = "string"}

IsPrefixed(n) == n.kind = "string" /\ n.name # <<>> /\ n.name[1] = "$"

\* C3 as stated: every member of the server shape is `$`-prefixed or an
\* RpcEvent member and never both (an event member keeps its original name).
C3_PrefixedXorEvent ==
    shape.built =>
        \A n \in DOMAIN shape.members :
            /\ IsPrefixed(n) \/ shape.members[n].type.kind = "RpcEvent"
            /\ ~(IsPrefixed(n) /\ shape.members[n].type.kind = "RpcEvent")

\* C3 amended: every member name of the server shape starts with `$`, and an
\* event-stream member K is renamed like any other: it appears under `$K`
\* (K itself when K already starts with `$`) as an RpcEvent member.
C3_EveryNamePrefixed ==
    shape.built =>
        /\ \A n \in DOMAIN shape.members : IsPrefixed(n)
        /\ \A K \in StringKeysOf(T) :
            T[K].kind = "event" =>
                /\ Dollar(K) \in DOMAIN shape.members
                /\ K \in shape.members[Dollar(K)].keys
                /\ shape.members[Dollar(K)].keys = {K} =>
                        shape.members[Dollar(K)].type.kind = "RpcEvent"

\* An event member whose key had no prefix sits in the shape under `$`+key.
C3_Witness ==
    /\ shape.built
    /\ \E K \in StringKeysOf(T) :
        /\ T[K].kind = "event"
        /\ ~IsPrefixed(K)
        /\ Dollar(K) \in DOMAIN shape.members
        /\ shape.members[Dollar(K)].type.kind = "RpcEvent"

\* C6 as stated: every server method returns an awaitable, in the shape and
\* in any class implementing it.
C6_AlwaysAwaitable ==
    /\ shape.built =>
        \A n \in DOMAIN shape.members :
            shape.members[n].type.kind = "method" =>
                \A r \in shape.members[n].type.rets : r.awaitable
    /\ impl.declared =>
        \A n \in DOMAIN impl.members :
            impl.members[n].kind = "method" => impl.members[n].ret.awaitable

\* C6 amended: a service method returning an awaitable of W gives a server
\* method returning W or an awaitable of W; a service method returning a
\* plain V gives a server method returning exactly V, synchronously.
C6_ReturnKept ==
    shape.built =>
        \A K \in StringKeysOf(T) :
            (T[K].kind = "function" /\ shape.members[Dollar(K)].keys = {K}) =>
                LET rets == shape.members[Dollar(K)].type.rets
                    V == T[K].ret
                IN  /\ shape.members[Dollar(K)].type.kind = "method"
                    /\ V.awaitable =>
                        /\ PromiseOf(V.of) \in rets
                        /\ \A r \in rets : r.of = V.of
                    /\ ~V.awaitable => rets = {V}

\* ElectronShellServer type-checks against the shape of a service whose
\* showItemInFolder is a synchronous procedure.
C6_Witness ==
    /\ impl.declared
    /\ impl.members = ElectronShellServer
    /\ shape.members[showItemInFolder].type.rets = {Plain("void")}

\* C7 as stated: two members that map to one server name are never merged
\* under that name (the interface yields no such shape).
C7_CollisionRejected ==
    shape.built =>
        \A n \in DOMAIN shape.members : Cardinality(shape.members[n].keys) = 1

\* C7 amended: an interface with colliding members is not rejected; the shape
\* is produced and holds one member under the shared name, built from both.
C7_CollisionMerged ==
    shape.built =>
        /\ DOMAIN shape.members = {Dollar(K) : K \in StringKeysOf(T)}
        /\ \A K1, K2 \in StringKeysOf(T) :
            (K1 # K2 /\ Dollar(K1) = Dollar(K2)) =>
                /\ Dollar(K1) \in DOMAIN shape.members
                /\ {K1, K2} \subseteq shape.members[Dollar(K1)].keys

\* Two function members, one raw `$name` and one `name`, merged into one method.
C7_Witness ==
    /\ shape.built
    /\ \E K1, K2 \in StringKeysOf(T) :
        /\ K1 # K2
        /\ IsPrefixed(K1)
        /\ ~IsPrefixed(K2)
        /\ Dollar(K2) = K1
        /\ shape.members[K1].keys = {K1, K2}
        /\ shape.members[K1].type.kind = "method"

\* C9: the naming rule leaves a `$`-prefixed name unchanged and puts `$` in
\* front of any other, so it is idempotent, and instantiating RpcServer<T>
\* twice gives identical shapes.
C9_NamingIdempotent ==
    /\ shape.built =>
        /\ \A K \in StringKeysOf(T) :
            /\ IsPrefixed(K) => EnsurePrefix("$", K) = K
            /\ ~IsPrefixed(K) => EnsurePrefix("$", K) = StringKey(<<"$">> \o K.name)
            /\ EnsurePrefix("$", EnsurePrefix("$", K)) = EnsurePrefix("$", K)
        /\ \A n \in DOMAIN shape.members : EnsurePrefix("$", n) = n
    /\ shape2.built => shape2 = shape

\* Both instantiations done, for an interface with a raw and a prefixed name.
C9_Witness ==
    /\ shape.built
    /\ shape2.built
    /\ \E K1, K2 \in StringKeysOf(T) : IsPrefixed(K1) /\ ~IsPrefixed(K2)
    /\ DOMAIN shape.members # {}

\* C10 as stated: a member that is neither an event stream nor a function
\* leaves no name in the server shape.
C10_ValueMemberAbsent ==
    shape.built =>
        \A K \in StringKeysOf(T) :
            T[K].kind = "value" => Dollar(K) \notin DOMAIN shape.members

\* C10 amended: such a member is present in the server shape under its
\* `$`-prefixed name with the type `undefined`; only members whose key is not
\* a string are absent.
C10_ValueMemberUndefined ==
    shape.built =>
        /\ \A K \in StringKeysOf(T) :
            T[K].kind = "value" =>
                /\ Dollar(K) \in DOMAIN shape.members
                /\ shape.members[Dollar(K)].type.kind = "undefined"
        /\ \A n \in DOMAIN shape.members :
            \A K \in shape.members[n].keys : K.kind = "string"

\* A value member under a string key and a member under a symbol key.
C10_Witness ==
    /\ shape.built
    /\ \E K \in StringKeysOf(T) :
        /\ T[K].kind = "value"
        /\ shape.members[Dollar(K)].type = UndefinedMember
    /\ \E K \in DOMAIN T : K.kind = "symbol"

(***************************************************************************)
(* Properties of RpcEvent.is (checked under SpecIs).                       *)
(***************************************************************************)
ExposesAll(v) == \A m \in EventMembers : v.props[m] = "function"

\* C4 as stated: is(value) is true exactly when value exposes kOnSendAll,
\* kOnSendTo, sendAll and sendTo as functions.
C4_TrueIffExposesAll ==
    isResult.called => (isResult.result <=> ExposesAll(value))

\* C4 amended: is(value) is true exactly when value is a non-null object
\* (typeof 'object') exposing all four members as functions; it is false for
\* {}, null, every function, and an object lacking one of the four.
C4_TrueIffObjectExposingAll ==
    isResult.called =>
        /\ isResult.result <=>
            (value.typeof = "object" /\ ~value.null /\ ExposesAll(value))
        /\ value = JsValue("object", NoProperties) => ~isResult.result
        /\ value = Null => ~isResult.result
        /\ value.typeof = "function" => ~isResult.result

\* is has answered true for an object holding the four members.
C4_Witness ==
    /\ isResult.called
    /\ isResult.result
    /\ value.typeof = "object"
    /\ ExposesAll(value)

(***************************************************************************)
(* Properties of RpcContext and RpcContextKey (checked under SpecContext). *)
(***************************************************************************)
\* C5: get of a key never populated yields undefined and require of it fails
\* with MissingContextValue naming the key; for a populated key both yield
\* its value; the context is the same after the operation as before it.
C5_GetAndRequire ==
    lastResult.op # "none" =>
        /\ ctx = lastResult.before
        /\ lastResult.id \notin DOMAIN populated =>
            /\ lastResult.op = "get" => lastResult.result.outcome = "undefined"
            /\ lastResult.op = "require" =>
                /\ lastResult.result.outcome = "MissingContextValue"
                /\ lastResult.result.named = lastResult.id
        /\ lastResult.id \in DOMAIN populated =>
            /\ lastResult.result.outcome = "value"
            /\ lastResult.result.value = populated[lastResult.id]

\* require has failed on a context that holds values under other keys.
C5_Witness ==
    /\ lastResult.op = "require"
    /\ lastResult.result.outcome = "MissingContextValue"
    /\ DOMAIN populated # {}
    /\ ctx.live

\* C8: keys are equal exactly when their identifiers are, so a get through
\* one key never yields a value populated under a different identifier, also
\* when the two are symbols with one description.
C8_KeyIsIdentifier ==
    /\ \A i1, i2 \in Identifiers :
        (RpcContextKey(i1) = RpcContextKey(i2)) <=> (i1 = i2)
    /\ lastResult.op = "get" =>
        /\ lastResult.id \notin DOMAIN populated =>
                lastResult.result.outcome = "undefined"
        /\ lastResult.id \in DOMAIN populated =>
                lastResult.result.value = populated[lastResult.id]

\* A get through one symbol while only its namesake symbol is populated.
C8_Witness ==
    /\ lastResult.op = "get"
    /\ lastResult.id = SymbolId(1, "connection")
    /\ DOMAIN populated = {SymbolId(2, "connection")}
    /\ lastResult.result.outcome = "undefined"

(***************************************************************************)
(* Properties of publishing (checked under Spec).                          *)
(***************************************************************************)
\* The peers a publish is addressed to.
Addressed(c) ==
    IF c.op = "sendAll" THEN Peers \ Range(c.arg.list) ELSE Range(c.arg.list)

C2_OneNotificationPerPublish ==
    /\ Len(notified) = Len(calls)
    /\ \A i \in 1..Len(calls) :
        /\ i <= Len(notified)
        /\ notified[i].channel =
                (IF calls[i].op = "sendAll" THEN kOnSendAll ELSE kOnSendTo)
        /\ notified[i].event = [value |-> calls[i].value, peers |-> calls[i].arg]

\* sendAll(e, [p1]) followed by sendTo(e, [p1, p2]).
C2_Witness ==
    /\ Len(calls) = 2
    /\ calls[1].op = "sendAll"
    /\ calls[1].arg = Present(<<"p1">>)
    /\ calls[2].op = "sendTo"
    /\ calls[2].arg = Present(<<"p1", "p2">>)
    /\ Len(notified) = 2

====
